---- MODULE Spec2Model ----
(***************************************************************************)
(* SectorFlux-AI: FinancialCrawler.fetch_all_data and _fetch_and_store_    *)
(* prices (ingestion and its chunk loop), DatabaseManipulation.            *)
(* upsert_market_data (Upsert Writer), prepare_tsf_features (Feature       *)
(* Engine) and generate_net_flux_matrix (Flux Matrix Calculator), each as  *)
(* a state machine over the shared fact table.                             *)
(*                                                                         *)
(* Seven specifications share the variables:                               *)
(*   Spec        the Upsert Writer, called again and again on the table    *)
(*   SpecPlanner the chunk loop, for every lookback of the bounded range   *)
(*   SpecFlux    the flux computation over every bounded snapshot pair     *)
(*   SpecCrawl   one call of _fetch_and_store_prices, the Writer included  *)
(*   SpecRun     one run of fetch_all_data, both passes                    *)
(*   SpecFeature runs of the Feature Engine with upserts between them      *)
(*   SpecWriters the Upsert Writer called by several writers at once       *)
(* Dates are day numbers (strftime("%Y-%m-%d") keeps the day only, and all *)
(* datetimes of one run differ from now() by whole days). Floating-point   *)
(* values are modelled by exact rationals.                                 *)
(***************************************************************************)
EXTENDS Integers, Sequences, FiniteSets, TLC

VARIABLES
    \* ---- the fact table Fact_DailyPrice (shared) ----
    fact,            \* [Keys -> row or NoRow]: the committed table
    \* ---- FinancialCrawler._fetch_and_store_prices, one ticker ----
    history_days,    \* the lookback argument
    end_date,        \* datetime.now() of the ticker
    start_date_limit,
    cursor_end,
    requested,       \* the (str_start, str_end) ranges requested so far, in order
    cpc,             \* "start" | "loop" | "assemble" | "idle"
    \* ---- DatabaseManipulation.upsert_market_data, one call at a time ----
    df,              \* the batch of the current (or last) call; None before any
    attempt,         \* the loop variable of "for attempt in range(max_retries)"
    wpc,             \* the next statement: "idle" (no call running), "connect",
                     \* "to_sql", "merge", "drop", "commit"
    trans,           \* "none" | "active": the transaction of the attempt
    pending,         \* the fact table as the open transaction sees it
    staging,         \* the rows of the #Staging relation, or NoTable
    error_msg,       \* str(e) of the last exception caught, or NoError
    sleeps,          \* the time.sleep delays of the current call, in order
    outcome,         \* of the last call: "none" | "returned" | "raised"
    fact_at_call,    \* history: the fact table when the current call started
    same_again,      \* history: the current call repeats the batch of the
                     \* call before it, which returned normally
    \* ---- DatabaseManipulation.generate_net_flux_matrix, one call ----
    flux_args,       \* [past_date, now_date, target_assets, hedge_assets]
    flux,            \* what the call computed: the matrix (or None) and the
                     \* locals it was built from
    fpc,             \* "call" | "done" | "failed" | "idle"
    \* ---- FinancialCrawler.fetch_all_data, one run ----
    market,          \* the market argument
    run_days,        \* the history_days argument of fetch_all_data
    target_universe, \* config.get_all_tickers() + MACRO_UNIVERSE
    calendar,        \* history: what the splits-calendar lookup came back with
    split_tickers,
    normal_tickers,
    rpc,             \* "idle" | "detect" | "split" | "split_pass" | "normal" |
                     \* "normal_pass" | "done"
    \* ---- FinancialCrawler._fetch_and_store_prices, one call (it shares
    \*      history_days .. cpc above; cpc also takes "price", "mcap",
    \*      "upsert" and "returned" here) ----
    tickers,         \* the tickers argument
    idx,             \* position in tickers of the current symbol, from 1
    all_prices,
    all_mcaps,
    retries,         \* retries the session has spent on the current request
    p_resp,          \* the last price response, or the exception met instead
    transient,       \* history: a price chunk of this ticker was given up
                     \* after a timeout or 5xx
    log,             \* history: tickers taken up and Writer calls, in order
    \* ---- DatabaseManipulation.prepare_tsf_features ----
    days_to_process, \* the argument of the last run (0 stands for None)
    fepc,            \* what was done last: "none" | "upsert" | "committed" | "raised"
    nruns,           \* Feature Engine runs so far
    nupserts,        \* batches upserted between the runs so far
    \* ---- upsert_market_data, several callers at once ----
    cw,              \* per writer: the position and the locals of its call,
                     \* and what its open transaction has read and written
    tempdb           \* the staging relations that exist, by session and name

plannerVars == <<history_days, end_date, start_date_limit, cursor_end, requested, cpc>>
writerVars == <<df, attempt, wpc, trans, pending, staging, error_msg, sleeps,
                outcome, fact_at_call, same_again>>
fluxVars == <<flux_args, flux, fpc>>
runVars == <<market, run_days, target_universe, calendar, split_tickers, normal_tickers, rpc>>
crawlVars == <<tickers, idx, all_prices, all_mcaps, retries, p_resp, transient, log>>
featVars == <<days_to_process, fepc, nruns, nupserts>>
concVars == <<cw, tempdb>>
vars == <<fact, plannerVars, writerVars, fluxVars, runVars, crawlVars, featVars, concVars>>

\* no Feature Engine run yet
FeatureIdle ==
    /\ days_to_process = 0
    /\ fepc = "none"
    /\ nruns = 0
    /\ nupserts = 0

NoResponse == [kind |-> "none", records |-> << >>, cause |-> "none"]
NoLookup == [kind |-> "none", symbols |-> << >>]
\* no fetch_all_data run and no _fetch_and_store_prices call
CrawlIdle ==
    /\ market = "us"
    /\ run_days = 0
    /\ target_universe = << >>
    /\ calendar = NoLookup
    /\ split_tickers = << >>
    /\ normal_tickers = << >>
    /\ rpc = "idle"
    /\ tickers = << >>
    /\ idx = 0
    /\ all_prices = << >>
    /\ all_mcaps = << >>
    /\ retries = 0
    /\ p_resp = NoResponse
    /\ transient = FALSE
    /\ log = << >>

(***************************************************************************)
(* SQL values: NULL is the empty tuple, a value v is <<v>>.                *)
(***************************************************************************)
Null == << >>
Some(v) == <<v>>
\* a missing date (pandas NaT, SQL NULL in the Date column); dates start at 1
NaT == 0

(***************************************************************************)
(* The fact table Fact_DailyPrice: a set of rows, PRIMARY KEY (Date,       *)
(* Symbol) (init_db.py:45).                                                *)
(***************************************************************************)
MaxDate == 1
MaxQuote == 2
MaxBatchLen == 2

Dates == 1..MaxDate
Symbols == {"AAA", "HEDGE-ONLY"}
Keys == Dates \X Symbols

KeyCols == {"Date", "Symbol"}
\* the non-key columns the MERGE writes
ValueCols == {"Open", "High", "Low", "Close", "Volume", "Market_Cap", "Shares_Outstanding"}
\* required_cols of upsert_market_data
RequiredCols == KeyCols \cup ValueCols
\* the columns prepare_tsf_features adds and owns
DerivedCols == {"RS_Ratio", "Log_Return_RS", "ZScore_20D"}
AllCols == RequiredCols \cup DerivedCols

KeyOf(r) == <<r["Date"], r["Symbol"]>>
RowsAt(T, k) == {t \in T : KeyOf(t) = k}
PrimaryKeyHolds(T) == \A t1, t2 \in T : KeyOf(t1) = KeyOf(t2) => t1 = t2

(***************************************************************************)
(* Batches (DataFrames) handed to upsert_market_data                       *)
(***************************************************************************)
\* the n-th quote of the provider, column by column
QuoteCol(n, c) ==
    CASE c = "Open" -> Some(10 * n)
      [] c = "High" -> Some(10 * n + 2)
      [] c = "Low" -> Some(10 * n - 1)
      [] c = "Close" -> Some(10 * n + 1)
      [] c = "Volume" -> Some(100 * n)
      [] c = "Market_Cap" -> Some(1000 * n)
      [] OTHER -> Some(90 + n)

BatchRow(k, n, cols) ==
    [c \in cols |-> CASE c = "Date" -> k[1] [] c = "Symbol" -> k[2] [] OTHER -> QuoteCol(n, c)]

\* a price-only provider: no market cap, hence no shares either
PriceOnlyCols == RequiredCols \ {"Market_Cap", "Shares_Outstanding"}
ColumnChoices == {RequiredCols, PriceOnlyCols}

SeqsUpTo(S, n) == UNION {[1..m -> S] : m \in 0..n}

NoneDf == [is_none |-> TRUE, columns |-> {}, rows |-> << >>]
Batches ==
    {NoneDf} \cup
    UNION {{[is_none |-> FALSE, columns |-> cols, rows |-> rs] :
              rs \in SeqsUpTo({BatchRow(k, n, cols) : k \in Keys, n \in 1..MaxQuote},
                              MaxBatchLen)} :
           cols \in ColumnChoices}

\* line 33: df is None or df.empty
IsEmptyDf(b) == b.is_none \/ b.rows = << >>

\* lines 37-40: a missing required column is added, filled with None
EnsureColumns(b) ==
    [b EXCEPT !.columns = b.columns \cup RequiredCols,
              !.rows = [i \in DOMAIN b.rows |->
                          [c \in b.columns \cup RequiredCols |->
                              IF c \in b.columns THEN b.rows[i][c] ELSE Null]]]

\* line 52: df[required_cols].to_sql(staging_table, ...)
ToSql(b) == [i \in DOMAIN b.rows |-> [c \in RequiredCols |-> b.rows[i][c]]]

NoTable == [exists |-> FALSE, rows |-> << >>]
StagingTable(rs) == [exists |-> TRUE, rows |-> rs]

(***************************************************************************)
(* The MERGE statement, lines 55-71                                        *)
(***************************************************************************)
\* ON target.Date = source.Date AND target.Symbol = source.Symbol
OnClauseDateOnly(t, s) == t["Date"] = s["Date"]
OnClause(t, s) == t["Date"] = s["Date"] /\ t["Symbol"] = s["Symbol"]

Matched(t, S) == \E i \in DOMAIN S : OnClause(t, S[i])
SourceOf(t, S) == S[CHOOSE i \in DOMAIN S : OnClause(t, S[i])]

\* WHEN MATCHED THEN UPDATE SET the seven value columns
UpdateRowAccumulate(t, s) ==
    [c \in AllCols |->
        IF c = "Volume" /\ t[c] # Null /\ s[c] # Null THEN Some(t[c][1] + s[c][1])
        ELSE IF c \in ValueCols THEN s[c] ELSE t[c]]
UpdateRow(t, s) == [c \in AllCols |-> IF c \in ValueCols THEN s[c] ELSE t[c]]

\* WHEN NOT MATCHED THEN INSERT the nine required columns (the others NULL)
InsertRow(s) == [c \in AllCols |-> IF c \in RequiredCols THEN s[c] ELSE Null]

\* the statement fails when two source rows share a key: error 8672 when
\* they match a target row, a PRIMARY KEY violation (2627) when they do not
\* and when a source row has no Date: it matches nothing and Date is NOT NULL
MergeError(T, S) ==
    \/ \E i, j \in DOMAIN S : i # j /\ KeyOf(S[i]) = KeyOf(S[j])
    \/ \E i \in DOMAIN S : S[i]["Date"] = NaT

MergeInto(T, S) ==
    {IF Matched(t, S) THEN UpdateRow(t, SourceOf(t, S)) ELSE t : t \in T}
    \cup {InsertRow(S[i]) : i \in {j \in DOMAIN S : ~\E t \in T : OnClause(t, S[j])}}

(***************************************************************************)
(* The retry policy, lines 45-46 and 78-86                                 *)
(***************************************************************************)
max_retries == 3

\* str(e): what matters of it is which of the two markers it contains
NoError == [raised |-> FALSE, markers |-> {}]
ErrorMessages == {[raised |-> TRUE, markers |-> m] : m \in SUBSET {"1205", "Deadlock"}}

\* line 81: '1205' in error_msg or 'Deadlock' in error_msg
IsDeadlock(msg) == "1205" \in msg.markers \/ "Deadlock" \in msg.markers

\* line 82
CanRetry(a) == a < max_retries - 1

\* line 83: time.sleep((attempt + 1) * 2)
RetryDelayFlat(a) == 2
RetryDelay(a) == (a + 1) * 2

\* line 74: DROP TABLE #Staging...
DropTableSkipped(stg) == stg
DropTable(stg) == NoTable

WriterIdle ==
    /\ df = NoneDf
    /\ attempt = 0
    /\ wpc = "idle"
    /\ trans = "none"
    /\ pending = fact
    /\ staging = NoTable
    /\ error_msg = NoError
    /\ sleeps = << >>
    /\ outcome = "none"
    /\ fact_at_call = fact
    /\ same_again = FALSE

\* lines 29-46: the call, up to the first attempt
CallStep(b) ==
    /\ wpc = "idle"
    /\ fact_at_call' = fact
    /\ sleeps' = << >>
    /\ error_msg' = NoError
    /\ attempt' = 0
    /\ IF IsEmptyDf(b)
       THEN /\ df' = b
            /\ wpc' = "idle"
            /\ outcome' = "returned"
            /\ same_again' = FALSE
       ELSE /\ df' = EnsureColumns(b)
            /\ wpc' = "connect"
            /\ outcome' = "none"
            /\ same_again' = (outcome = "returned" /\ df = EnsureColumns(b))
    /\ UNCHANGED <<fact, trans, pending, staging>>

\* a call by any caller with any batch
Call(b) ==
    /\ CallStep(b)
    /\ UNCHANGED <<plannerVars, fluxVars, runVars, crawlVars, featVars, concVars>>

\* lines 49-50: engine.connect() and conn.begin()
Connect ==
    /\ wpc = "connect"
    /\ trans' = "active"
    /\ pending' = fact
    /\ wpc' = "to_sql"
    /\ UNCHANGED <<fact, df, attempt, staging, error_msg, sleeps, outcome,
                   fact_at_call, same_again, plannerVars, fluxVars, runVars, crawlVars, featVars, concVars>>

\* lines 52-53: the staging write
StagingWrite ==
    /\ wpc = "to_sql"
    /\ staging' = StagingTable(ToSql(df))
    /\ wpc' = "merge"
    /\ UNCHANGED <<fact, df, attempt, trans, pending, error_msg, sleeps, outcome,
                   fact_at_call, same_again, plannerVars, fluxVars, runVars, crawlVars, featVars, concVars>>

\* line 73: conn.execute(merge_sql), when the statement succeeds
Merge ==
    /\ wpc = "merge"
    /\ ~MergeError(pending, staging.rows)
    /\ pending' = MergeInto(pending, staging.rows)
    /\ wpc' = "drop"
    /\ UNCHANGED <<fact, df, attempt, trans, staging, error_msg, sleeps, outcome,
                   fact_at_call, same_again, plannerVars, fluxVars, runVars, crawlVars, featVars, concVars>>

\* line 74
DropStaging ==
    /\ wpc = "drop"
    /\ staging' = DropTable(staging)
    /\ wpc' = "commit"
    /\ UNCHANGED <<fact, df, attempt, trans, pending, error_msg, sleeps, outcome,
                   fact_at_call, same_again, plannerVars, fluxVars, runVars, crawlVars, featVars, concVars>>

\* lines 75-76: commit, break, and the return
Commit ==
    /\ wpc = "commit"
    /\ fact' = pending
    /\ trans' = "none"
    /\ wpc' = "idle"
    /\ outcome' = "returned"
    /\ UNCHANGED <<df, attempt, pending, staging, error_msg, sleeps,
                   fact_at_call, same_again, plannerVars, fluxVars, runVars, crawlVars, featVars, concVars>>

\* line 79, trans.rollback(): the table is what was committed, not what the
\* transaction had written
RollbackKeeps(committed, written) == written
Rollback(committed, written) == committed

\* lines 78-86: a statement of the attempt raises msg. Leaving the with block
\* closes the connection and trans.rollback() ends the transaction: what the
\* attempt wrote, the staging relation it created included, is undone. Then
\* the handler either sleeps and starts the next attempt or raises.
Except(msg) ==
    /\ wpc \in {"connect", "to_sql", "merge", "drop", "commit"}
    /\ trans' = "none"
    /\ fact' = Rollback(fact, pending)
    /\ pending' = fact'
    /\ staging' = NoTable
    /\ error_msg' = msg
    /\ IF IsDeadlock(msg) /\ CanRetry(attempt)
       THEN /\ sleeps' = Append(sleeps, RetryDelay(attempt))
            /\ attempt' = attempt + 1
            /\ wpc' = "connect"
            /\ UNCHANGED outcome
       ELSE /\ wpc' = "idle"
            /\ outcome' = "raised"
            /\ UNCHANGED <<sleeps, attempt>>
    /\ UNCHANGED <<df, fact_at_call, same_again, plannerVars, fluxVars, runVars, crawlVars, featVars, concVars>>


(***************************************************************************)
(* upsert_market_data called by several writers at once, each on its own   *)
(* connection. The database runs the transactions under READ COMMITTED     *)
(* with locks: a MERGE first matches its source rows against the committed *)
(* target rows, then writes, and waits while a key it needs is locked by   *)
(* another open transaction. Nothing keeps a key that was not matched from *)
(* being inserted and committed by another writer between the two; the     *)
(* PRIMARY KEY of the table (init_db.py:45) then fails the statement.      *)
(***************************************************************************)
MaxWriters == 2
MaxSuffix == 2
Writers == 1..MaxWriters
\* uuid.uuid4().hex[:8], which two calls may draw alike
Suffixes == 1..MaxSuffix

\* lines 42-43: a # relation belongs to the session that created it, and its
\* name ends in the suffix of the call
StagingKeyShared(w, sfx) == <<0, 0>>
StagingKey(w, sfx) == <<w, sfx>>
StagingKeys == (0..MaxWriters) \X (0..MaxSuffix)

\* the batches of writer w: its w-th quote for any keys
WriterBatches(w) ==
    {[is_none |-> FALSE, columns |-> RequiredCols, rows |-> rs] :
        rs \in SeqsUpTo({BatchRow(k, w, RequiredCols) : k \in Keys}, MaxBatchLen)}

IdleWriter ==
    [pc |-> "idle", df |-> NoneDf, attempt |-> 0, suffix |-> 0,
     to_insert |-> {}, wrote |-> {}, read |-> << >>]

ConcurrentIdle ==
    /\ cw = [w \in Writers |-> IdleWriter]
    /\ tempdb = [k \in StagingKeys |-> NoTable]

SourceKeys(S) == {KeyOf(S[i]) : i \in DOMAIN S}
\* the keys whose rows the open transaction of w holds locked
LockedBy(w) ==
    CASE cw[w].pc = "merge_write" -> SourceKeys(cw[w].read) \ cw[w].to_insert
      [] cw[w].pc \in {"drop", "commit"} -> SourceKeys(cw[w].read)
      [] OTHER -> {}
LockedByOthers(w) == UNION {LockedBy(v) : v \in Writers \ {w}}

\* PRIMARY KEY (Date, Symbol): an INSERT of a key the table holds fails
NoPrimaryKey(T, keys) == FALSE
PrimaryKeyViolation(T, keys) == \E k \in keys : RowsAt(T, k) # {}

OtherGroupsUnchanged ==
    UNCHANGED <<plannerVars, writerVars, fluxVars, runVars, crawlVars, featVars>>

\* lines 33-46
CallOf(w, b, sfx) ==
    /\ cw[w].pc = "idle"
    /\ cw' = [cw EXCEPT ![w] =
                 IF IsEmptyDf(b) THEN IdleWriter
                 ELSE [IdleWriter EXCEPT !.pc = "connect", !.df = EnsureColumns(b),
                                         !.suffix = sfx]]
    /\ UNCHANGED <<fact, tempdb>>
    /\ OtherGroupsUnchanged

\* lines 49-50
ConnectOf(w) ==
    /\ cw[w].pc = "connect"
    /\ cw' = [cw EXCEPT ![w].pc = "to_sql"]
    /\ UNCHANGED <<fact, tempdb>>
    /\ OtherGroupsUnchanged

\* lines 52-53: to_sql(staging_table, if_exists='replace')
StagingWriteOf(w) ==
    /\ cw[w].pc = "to_sql"
    /\ tempdb' = [tempdb EXCEPT ![StagingKey(w, cw[w].suffix)] = StagingTable(ToSql(cw[w].df))]
    /\ cw' = [cw EXCEPT ![w].pc = "merge"]
    /\ UNCHANGED fact
    /\ OtherGroupsUnchanged

\* line 73, first half: USING staging AS source ON ...: the source is read
\* and matched against the target
MergeMatch(w) ==
    LET source == tempdb[StagingKey(w, cw[w].suffix)]
    IN  /\ cw[w].pc = "merge"
        /\ source.exists
        /\ ~MergeError(fact, source.rows)
        /\ SourceKeys(source.rows) \cap LockedByOthers(w) = {}
        /\ cw' = [cw EXCEPT ![w].pc = "merge_write",
                            ![w].read = source.rows,
                            ![w].to_insert = {k \in SourceKeys(source.rows) : RowsAt(fact, k) = {}}]
        /\ UNCHANGED <<fact, tempdb>>
        /\ OtherGroupsUnchanged

\* line 73, second half: WHEN MATCHED THEN UPDATE, WHEN NOT MATCHED THEN INSERT
MergeWrite(w) ==
    LET matched == {t \in fact : KeyOf(t) \notin cw[w].to_insert}
    IN  /\ cw[w].pc = "merge_write"
        /\ SourceKeys(cw[w].read) \cap LockedByOthers(w) = {}
        /\ ~PrimaryKeyViolation(fact, cw[w].to_insert)
        /\ cw' = [cw EXCEPT ![w].pc = "drop",
                            ![w].wrote = {t \in MergeInto(matched, cw[w].read) :
                                            KeyOf(t) \in SourceKeys(cw[w].read)}]
        /\ UNCHANGED <<fact, tempdb>>
        /\ OtherGroupsUnchanged

\* line 74
DropStagingOf(w) ==
    /\ cw[w].pc = "drop"
    /\ tempdb' = [tempdb EXCEPT ![StagingKey(w, cw[w].suffix)] = DropTable(@)]
    /\ cw' = [cw EXCEPT ![w].pc = "commit"]
    /\ UNCHANGED fact
    /\ OtherGroupsUnchanged

\* lines 75-76: the rows written replace the rows that were matched and
\* join the others
CommitOf(w) ==
    /\ cw[w].pc = "commit"
    /\ fact' = {t \in fact : KeyOf(t) \notin (SourceKeys(cw[w].read) \ cw[w].to_insert)}
                  \cup cw[w].wrote
    /\ cw' = [cw EXCEPT ![w] = IdleWriter]
    /\ UNCHANGED tempdb
    /\ OtherGroupsUnchanged

\* lines 78-86: a statement fails (a deadlock victim, a key violation, a lost
\* connection, ...); the rollback undoes what the attempt wrote and created
ExceptOf(w, deadlock) ==
    /\ cw[w].pc \in {"connect", "to_sql", "merge", "merge_write", "drop", "commit"}
    /\ tempdb' = [tempdb EXCEPT ![StagingKey(w, cw[w].suffix)] = NoTable]
    /\ cw' = [cw EXCEPT ![w] =
                 IF deadlock /\ CanRetry(cw[w].attempt)
                 THEN [@ EXCEPT !.pc = "connect", !.attempt = @ + 1,
                                !.to_insert = {}, !.wrote = {}, !.read = << >>]
                 ELSE IdleWriter]
    /\ fact' = Rollback(fact, cw[w].wrote)
    /\ OtherGroupsUnchanged

(***************************************************************************)
(* Floats, as exact rationals <<numerator, denominator>> in lowest terms   *)
(* with a positive denominator; NaN is the empty tuple, as SQL NULL is.    *)
(***************************************************************************)
NaN == << >>
Abs(x) == IF x < 0 THEN -x ELSE x

RECURSIVE Gcd(_, _)
Gcd(a, b) == IF b = 0 THEN a ELSE Gcd(b, a % b)

Rat(n, d) ==
    LET sn == IF d < 0 THEN -n ELSE n
        sd == Abs(d)
        g == Gcd(Abs(sn), sd)
    IN  <<sn \div g, sd \div g>>

Zero == <<0, 1>>
One == <<1, 1>>
\* a column value as pandas reads it: NULL becomes NaN
ToFloat(v) == IF v = Null THEN NaN ELSE <<v[1], 1>>
NotNa(x) == x # NaN

FAdd(a, b) == IF a = NaN \/ b = NaN THEN NaN ELSE Rat(a[1] * b[2] + b[1] * a[2], a[2] * b[2])
FSub(a, b) == IF a = NaN \/ b = NaN THEN NaN ELSE Rat(a[1] * b[2] - b[1] * a[2], a[2] * b[2])
FMul(a, b) == IF a = NaN \/ b = NaN THEN NaN ELSE Rat(a[1] * b[1], a[2] * b[2])
\* b is not zero where the code divides
FDiv(a, b) == IF a = NaN \/ b = NaN THEN NaN ELSE Rat(a[1] * b[2], a[2] * b[1])
FAbs(a) == IF a = NaN THEN NaN ELSE <<Abs(a[1]), a[2]>>
\* a comparison with NaN is False
FLt(a, b) == a # NaN /\ b # NaN /\ a[1] * b[2] < b[1] * a[2]
FGt(a, b) == FLt(b, a)

\* sum(...) over a list of floats
RECURSIVE FSumSeq(_)
FSumSeq(xs) == IF xs = << >> THEN Zero ELSE FAdd(FSumSeq(SubSeq(xs, 1, Len(xs) - 1)), xs[Len(xs)])

\* sum(d.values()) of a dict d
RECURSIVE FSumDict(_)
FSumDict(d) ==
    IF DOMAIN d = {} THEN Zero
    ELSE LET k == CHOOSE x \in DOMAIN d : TRUE
         IN  FAdd(d[k], FSumDict([x \in DOMAIN d \ {k} |-> d[x]]))

Range(xs) == {xs[i] : i \in DOMAIN xs}
\* d.get(k, 0)
Get(d, k) == IF k \in DOMAIN d THEN d[k] ELSE Zero

(***************************************************************************)
(* Flux Matrix Calculator: database.py, generate_net_flux_matrix           *)
(***************************************************************************)
\* lines 213-217: the default universes
DefaultTargets == <<"XLK", "XLF", "XLV", "XLE", "XLI", "XLY", "XLP", "XLU", "XLB", "XLRE", "XLC">>
DefaultHedges == <<"BIL", "SHV", "TLT", "GLD">>
NoneList == [is_none |-> TRUE, list |-> << >>]
List(xs) == [is_none |-> FALSE, list |-> xs]

\* lines 223-230: the rows of the two dates and the requested tickers
QueryRows(T, past_date, now_date, all_tickers) ==
    {t \in T : t["Date"] \in {past_date, now_date} /\ t["Symbol"] \in all_tickers}

\* lines 243-245: the tickers with a row at both dates
AliveTickers(rows, past_date, now_date) ==
    {t["Symbol"] : t \in {u \in rows : u["Date"] = past_date}}
    \cap {t["Symbol"] : t \in {u \in rows : u["Date"] = now_date}}

ActiveUnfiltered(assets, alive) == assets
\* lines 248-249: [s for s in assets if s in alive_tickers]
Active(assets, alive) == SelectSeq(assets, LAMBDA s : s \in alive)

\* lines 264-270: F_net of one ticker
NetFlow(mc_past, price_past, mc_now, price_now) ==
    IF NotNa(mc_past) /\ NotNa(price_past) /\ price_past # Zero
    THEN LET r_asset == FSub(FDiv(price_now, price_past), One)
         IN  FSub(mc_now, FMul(mc_past, FAdd(One, r_asset)))
    ELSE Zero

\* lines 278-279
Outflows(nodes_f_net) ==
    [k \in {x \in DOMAIN nodes_f_net : FLt(nodes_f_net[x], Zero)} |-> FAbs(nodes_f_net[k])]
Inflows(nodes_f_net) ==
    [k \in {x \in DOMAIN nodes_f_net : FGt(nodes_f_net[x], Zero)} |-> nodes_f_net[k]]

Put(d, k, v) == [x \in DOMAIN d \cup {k} |-> IF x = k THEN v ELSE d[x]]

\* lines 281-292: the conservation correction
NoCorrection(outflows, inflows) ==
    [outflows |-> outflows, inflows |-> inflows,
     total_out |-> FSumDict(outflows), total_in |-> FSumDict(inflows)]
Correction(outflows, inflows) ==
    LET total_out == FSumDict(outflows)
        total_in == FSumDict(inflows)
    IN  IF FGt(total_out, total_in)
        THEN LET inflows2 == Put(inflows, "HEDGE",
                                 FAdd(Get(inflows, "HEDGE"), FSub(total_out, total_in)))
             IN  [outflows |-> outflows, inflows |-> inflows2,
                  total_out |-> total_out, total_in |-> FSumDict(inflows2)]
        ELSE IF FGt(total_in, total_out)
        THEN LET outflows2 == Put(outflows, "HEDGE",
                                  FAdd(Get(outflows, "HEDGE"), FSub(total_in, total_out)))
             IN  [outflows |-> outflows2, inflows |-> inflows,
                  total_out |-> FSumDict(outflows2), total_in |-> total_in]
        ELSE [outflows |-> outflows, inflows |-> inflows,
              total_out |-> total_out, total_in |-> total_in]

\* line 302: out_val * (in_val / total_in)
AllocationUnscaled(out_val, in_val, total_in) == FMul(out_val, in_val)
Allocation(out_val, in_val, total_in) == FMul(out_val, FDiv(in_val, total_in))

NoFlux ==
    [is_none |-> TRUE, nodes |-> << >>, cells |-> << >>, outflows |-> << >>,
     inflows |-> << >>, total_out |-> Zero, total_in |-> Zero, alive |-> {},
     active_hedges |-> << >>, f_net_dict |-> << >>, nodes_f_net |-> << >>]

\* lines 235-237: df.empty
IsEmptyResult(rows) == rows = {}

\* lines 210-306, once the query returned its rows
FluxMatrix(T, past_date, now_date, targets, hedges) ==
    LET target_assets == IF targets.is_none THEN DefaultTargets ELSE targets.list
        hedge_assets == IF hedges.is_none THEN DefaultHedges ELSE hedges.list
        all_tickers == Range(target_assets) \cup Range(hedge_assets)
        rows == QueryRows(T, past_date, now_date, all_tickers)
    IN  IF IsEmptyResult(rows) THEN NoFlux
        ELSE
        LET alive_tickers == AliveTickers(rows, past_date, now_date)
            active_targets == Active(target_assets, alive_tickers)
            active_hedges == Active(hedge_assets, alive_tickers)
            At(d, sym) == CHOOSE t \in rows : t["Date"] = d /\ t["Symbol"] = sym
            f_net_dict == [sym \in alive_tickers |->
                              NetFlow(ToFloat(At(past_date, sym)["Market_Cap"]),
                                      ToFloat(At(past_date, sym)["Close"]),
                                      ToFloat(At(now_date, sym)["Market_Cap"]),
                                      ToFloat(At(now_date, sym)["Close"]))]
            nodes_f_net == [k \in Range(active_targets) \cup {"HEDGE"} |->
                               IF k = "HEDGE"
                               THEN FSumSeq([i \in DOMAIN active_hedges |->
                                                Get(f_net_dict, active_hedges[i])])
                               ELSE Get(f_net_dict, k)]
            c == Correction(Outflows(nodes_f_net), Inflows(nodes_f_net))
            matrix_nodes == Append(active_targets, "HEDGE")
            cells == [e \in Range(matrix_nodes) \X Range(matrix_nodes) |->
                         IF /\ FGt(c.total_in, Zero)
                            /\ e[1] \in DOMAIN c.outflows
                            /\ e[2] \in DOMAIN c.inflows
                         THEN Allocation(c.outflows[e[1]], c.inflows[e[2]], c.total_in)
                         ELSE Zero]
        IN  [is_none |-> FALSE, nodes |-> matrix_nodes, cells |-> cells,
             outflows |-> c.outflows, inflows |-> c.inflows,
             total_out |-> c.total_out, total_in |-> c.total_in,
             alive |-> alive_tickers, active_hedges |-> active_hedges,
             f_net_dict |-> f_net_dict, nodes_f_net |-> nodes_f_net]

FluxIdle ==
    /\ flux_args = [past_date |-> 0, now_date |-> 0,
                    target_assets |-> NoneList, hedge_assets |-> NoneList]
    /\ flux = NoFlux
    /\ fpc = "idle"

\* lines 229-306: the query returns and the matrix is computed
GenerateNetFluxMatrix ==
    /\ fpc = "call"
    /\ flux' = FluxMatrix(fact, flux_args.past_date, flux_args.now_date,
                          flux_args.target_assets, flux_args.hedge_assets)
    /\ fpc' = "done"
    /\ UNCHANGED <<fact, flux_args, plannerVars, writerVars, runVars, crawlVars, featVars, concVars>>

\* lines 231-233: pd.read_sql raises
ReadFails ==
    /\ fpc = "call"
    /\ flux' = NoFlux
    /\ fpc' = "failed"
    /\ UNCHANGED <<fact, flux_args, plannerVars, writerVars, runVars, crawlVars, featVars, concVars>>

(***************************************************************************)
(* Range Planner: crawler.py, the chunk loop of _fetch_and_store_prices    *)
(***************************************************************************)
CHUNK_SIZE_DAYS == 1825
FullHistoryDays == 10950
IncrementalDays == 30
MaxLookback == 3700

Lookbacks == (0..MaxLookback) \cup {FullHistoryDays, IncrementalDays}

\* ceil(a / b) for a >= 0, b > 0
CeilDiv(a, b) == (a + b - 1) \div b

\* cursor_start = cursor_end - timedelta(days=CHUNK_SIZE_DAYS), clipped to the limit
ChunkStart(ce, limit) ==
    IF ce - CHUNK_SIZE_DAYS < limit THEN limit ELSE ce - CHUNK_SIZE_DAYS

NextCursorEndOverlap(cs) == cs
\* cursor_end = cursor_start - timedelta(days=1)
NextCursorEnd(cs) == cs - 1

\* while cursor_end > start_date_limit
LoopGuard(ce, limit) == ce > limit

PlannerIdle ==
    /\ history_days = 0
    /\ end_date = 0
    /\ start_date_limit = 0
    /\ cursor_end = 0
    /\ requested = << >>
    /\ cpc = "idle"

\* lines 108-115: the cursors of one ticker
StartTicker ==
    /\ cpc = "start"
    /\ start_date_limit' = end_date - history_days
    /\ cursor_end' = end_date
    /\ requested' = << >>
    /\ cpc' = "loop"
    /\ UNCHANGED <<fact, history_days, end_date, writerVars, fluxVars, runVars, crawlVars, featVars, concVars>>

\* lines 118-160: one iteration. Both requests are wrapped in try/except
\* Exception, so whatever they return or raise, the cursor moves on.
ChunkIteration ==
    /\ cpc = "loop"
    /\ LoopGuard(cursor_end, start_date_limit)
    /\ LET cursor_start == ChunkStart(cursor_end, start_date_limit)
       IN  /\ requested' = Append(requested, <<cursor_start, cursor_end>>)
           /\ cursor_end' = NextCursorEnd(cursor_start)
    /\ UNCHANGED <<fact, history_days, end_date, start_date_limit, cpc, writerVars, fluxVars, runVars, crawlVars, featVars, concVars>>

\* line 118 false: the loop is left for the assembly at line 162
ChunkLoopExit ==
    /\ cpc = "loop"
    /\ ~LoopGuard(cursor_end, start_date_limit)
    /\ cpc' = "assemble"
    /\ UNCHANGED <<fact, history_days, end_date, start_date_limit, cursor_end, requested,
                   writerVars, fluxVars, runVars, crawlVars, featVars, concVars>>

InitPlanner ==
    /\ fact = {}
    /\ WriterIdle
    /\ FluxIdle
    /\ CrawlIdle
    /\ FeatureIdle
    /\ ConcurrentIdle
    /\ history_days \in Lookbacks
    /\ end_date = 0
    /\ start_date_limit = 0
    /\ cursor_end = 0
    /\ requested = << >>
    /\ cpc = "start"

NextPlanner == StartTicker \/ ChunkIteration \/ ChunkLoopExit

SpecPlanner == InitPlanner /\ [][NextPlanner]_vars

\* the days a requested range (start, end) asks for, both ends included
DaysOf(chunk) == chunk[1]..chunk[2]
\* how many requested ranges hold day d
TimesRequested(d) == Cardinality({i \in 1..Len(requested) : d \in DaysOf(requested[i])})
PlannerDone == cpc = "assemble"

(***************************************************************************)
(* The Upsert Writer called again and again                                *)
(***************************************************************************)
Init ==
    /\ fact = {}
    /\ WriterIdle
    /\ PlannerIdle
    /\ FluxIdle
    /\ CrawlIdle
    /\ FeatureIdle
    /\ ConcurrentIdle

Next ==
    \/ \E b \in Batches : Call(b)
    \/ Connect
    \/ StagingWrite
    \/ Merge
    \/ DropStaging
    \/ Commit
    \/ \E msg \in ErrorMessages : Except(msg)

Spec == Init /\ [][Next]_vars

(***************************************************************************)
(* The Flux Matrix Calculator over every bounded snapshot pair             *)
(***************************************************************************)
MaxPrice == 2
MaxCap == 2

\* the two snapshot dates of a call
SnapshotDates == <<1, 2>>
FluxKeys == Range(SnapshotDates) \X Symbols
\* Close is never NULL in these tables; a missing Market_Cap is what brings NaN
FluxPrices == {Some(p) : p \in 0..MaxPrice}
FluxCaps == {Null} \cup {Some(m) : m \in 1..MaxCap}
Absent == << >>

FluxRow(k, close, cap) ==
    [c \in AllCols |->
        CASE c = "Date" -> k[1] [] c = "Symbol" -> k[2]
          [] c = "Close" -> close [] c = "Market_Cap" -> cap [] OTHER -> Null]

\* every fact table over the two dates and the two symbols: per key no row, or
\* a row with a Close and a Market_Cap of the bounded sets
FluxTables ==
    {{FluxRow(k, f[k][1], f[k][2]) : k \in {x \in FluxKeys : f[x] # Absent}} :
        f \in [FluxKeys -> {Absent} \cup (FluxPrices \X FluxCaps)]}

FluxUniverses ==
    {<<List(<<"AAA">>), List(<<"HEDGE-ONLY">>)>>,
     <<List(<<"AAA", "HEDGE-ONLY">>), List(<< >>)>>,
     <<List(<<"AAA", "HEDGE-ONLY">>), List(<<"HEDGE-ONLY">>)>>,
     <<NoneList, List(<<"AAA", "HEDGE-ONLY">>)>>}

\* the worked scenario of the specification (section 8)
ScenarioTable ==
    {FluxRow(<<1, "AAA">>, Some(100), Some(1000)),
     FluxRow(<<1, "HEDGE-ONLY">>, Some(50), Some(500)),
     FluxRow(<<2, "AAA">>, Some(110), Some(1200)),
     FluxRow(<<2, "HEDGE-ONLY">>, Some(49), Some(480))}
ScenarioArgs ==
    [past_date |-> 1, now_date |-> 2,
     target_assets |-> List(<<"AAA">>), hedge_assets |-> List(<<"HEDGE-ONLY">>)]

InitFlux ==
    /\ \/ /\ fact \in FluxTables
          /\ \E u \in FluxUniverses :
                flux_args = [past_date |-> SnapshotDates[1], now_date |-> SnapshotDates[2],
                             target_assets |-> u[1], hedge_assets |-> u[2]]
       \/ /\ fact = ScenarioTable
          /\ flux_args = ScenarioArgs
    /\ WriterIdle
    /\ PlannerIdle
    /\ CrawlIdle
    /\ FeatureIdle
    /\ ConcurrentIdle
    /\ flux = NoFlux
    /\ fpc = "call"

NextFlux == GenerateNetFluxMatrix \/ ReadFails

SpecFlux == InitFlux /\ [][NextFlux]_vars

(***************************************************************************)
(* Claims about the Flux Matrix Calculator (specification SpecFlux)        *)
(***************************************************************************)
FluxNodes == Range(flux.nodes)
RowSum(s) == FSumDict([t \in FluxNodes |-> flux.cells[<<s, t>>]])
ColSum(t) == FSumDict([s \in FluxNodes |-> flux.cells[<<s, t>>]])
MatrixTotal == FSumDict([s \in FluxNodes |-> RowSum(s)])
\* the call built a matrix with at least one outflow and one inflow node
FluxBuilt ==
    /\ fpc = "done"
    /\ ~flux.is_none
    /\ DOMAIN flux.outflows # {}
    /\ DOMAIN flux.inflows # {}

\* C1: in a matrix built with at least one outflow node and one inflow node,
\* every entry is >= 0, each row sums to its node's outflow magnitude (0 for a
\* node without outflow), each column to its node's inflow magnitude, and the
\* sum of all entries = total outflow = total inflow.
C1_FluxConservation ==
    FluxBuilt =>
        /\ \A e \in DOMAIN flux.cells : NotNa(flux.cells[e]) /\ ~FLt(flux.cells[e], Zero)
        /\ \A s \in FluxNodes : RowSum(s) = Get(flux.outflows, s)
        /\ \A t \in FluxNodes : ColSum(t) = Get(flux.inflows, t)
        /\ MatrixTotal = flux.total_out
        /\ flux.total_out = flux.total_in
        /\ FSumDict(flux.outflows) = flux.total_out
        /\ FSumDict(flux.inflows) = flux.total_in

\* a matrix where HEDGE has an outflow of its own and takes the residual inflow
\* beside another inflow node
C1_Witness ==
    /\ FluxBuilt
    /\ "HEDGE" \in DOMAIN flux.outflows \cap DOMAIN flux.inflows
    /\ Cardinality(DOMAIN flux.inflows) >= 2
    /\ \E e \in DOMAIN flux.cells : flux.cells[e][2] > 1

ScenarioDone == fpc = "done" /\ fact = ScenarioTable /\ flux_args = ScenarioArgs
ScenarioMatrix(v) ==
    [e \in {"AAA", "HEDGE"} \X {"AAA", "HEDGE"} |->
        IF e = <<"HEDGE", "AAA">> THEN <<v, 1>> ELSE Zero]

\* C2 as stated: the worked scenario yields the 2x2 matrix with HEDGE->AAA = 10
\* and every other cell 0.
C2_ScenarioAsStated ==
    ScenarioDone =>
        /\ ~flux.is_none
        /\ flux.nodes = <<"AAA", "HEDGE">>
        /\ flux.cells = ScenarioMatrix(10)

\* C2 amended: the worked scenario yields the 2x2 matrix with HEDGE->AAA = 100
\* (HEDGE's own outflow of 10 plus the residual 90 the conservation correction
\* adds to it) and every other cell 0.
C2_Scenario ==
    ScenarioDone =>
        /\ ~flux.is_none
        /\ flux.nodes = <<"AAA", "HEDGE">>
        /\ flux.cells = ScenarioMatrix(100)

\* the scenario was computed: AAA has the inflow 100 and HEDGE the outflow
C2_Witness ==
    /\ ScenarioDone
    /\ ~flux.is_none
    /\ DOMAIN flux.inflows = {"AAA"}
    /\ flux.inflows["AAA"] = <<100, 1>>
    /\ DOMAIN flux.outflows = {"HEDGE"}

RequestedTickers ==
    Range(IF flux_args.target_assets.is_none THEN DefaultTargets
          ELSE flux_args.target_assets.list)
    \cup Range(IF flux_args.hedge_assets.is_none THEN DefaultHedges
               ELSE flux_args.hedge_assets.list)
StoredRowsAt(d) == {t \in fact : t["Date"] = d /\ t["Symbol"] \in RequestedTickers}

\* C3: when past_date or now_date has no stored row for the requested universe,
\* the call returns None, never a matrix.
C3_FluxAbsence ==
    (/\ fpc \in {"done", "failed"}
     /\ \/ StoredRowsAt(flux_args.past_date) = {}
        \/ StoredRowsAt(flux_args.now_date) = {})
    => flux.is_none

(***************************************************************************)
(* Claims about the Upsert Writer (specification Spec)                     *)
(***************************************************************************)
\* the last call returned normally and had rows to write
UpsertSucceeded == wpc = "idle" /\ outcome = "returned" /\ ~IsEmptyDf(df)
BatchKeys == {KeyOf(df.rows[i]) : i \in DOMAIN df.rows}
HasMarker(msg) == msg.raised /\ msg.markers # {}

\* C4: while the batch of the call before, which was applied, is applied again,
\* and after it, the fact table is the one the first application left: same
\* rows, same values, one row per key.
C4_UpsertIdempotent ==
    same_again => (fact = fact_at_call /\ PrimaryKeyHolds(fact))

\* the second application of a batch with rows has committed
C4_Witness ==
    same_again /\ UpsertSucceeded /\ fact # {} /\ Len(df.rows) = MaxBatchLen

\* C5: after a successful upsert, each key of the batch has exactly one row,
\* holding the batch's values in the seven value columns and what it held before
\* in the others (NULL when it is new); the rows of every other key are those
\* from before the call.
C5_UpsertOverwrite ==
    UpsertSucceeded =>
        \A k \in Keys :
            IF k \in BatchKeys
            THEN \E i \in DOMAIN df.rows :
                    /\ KeyOf(df.rows[i]) = k
                    /\ RowsAt(fact, k) =
                         {[c \in AllCols |->
                              IF c \in RequiredCols THEN df.rows[i][c]
                              ELSE IF RowsAt(fact_at_call, k) = {} THEN Null
                              ELSE (CHOOSE t \in RowsAt(fact_at_call, k) : TRUE)[c]]}
            ELSE RowsAt(fact, k) = RowsAt(fact_at_call, k)

\* a stored row got another Close from the batch while a row of another key
\* was there to be left alone
C5_Witness ==
    /\ UpsertSucceeded
    /\ \E t \in fact_at_call, u \in fact :
          /\ KeyOf(t) = KeyOf(u)
          /\ KeyOf(t) \in BatchKeys
          /\ t["Close"] # u["Close"]
    /\ \E t \in fact_at_call : KeyOf(t) \notin BatchKeys

\* C6: every step of a call keeps attempt below max_retries; a new attempt is
\* started only by an exception whose message carries a deadlock marker, starts
\* from scratch (no transaction, no staging relation, nothing merged) and after
\* a delay longer than the one before; the call raises only on an exception
\* without marker or on the last attempt, with the transaction rolled back and
\* without any further attempt or delay.
C6_RetryPolicy ==
    [][wpc # "idle" =>
        /\ attempt < max_retries /\ attempt' < max_retries
        /\ attempt' # attempt =>
              /\ HasMarker(error_msg')
              /\ attempt' = attempt + 1
              /\ wpc' = "connect" /\ trans' = "none" /\ staging' = NoTable
              /\ pending' = fact /\ fact' = fact
              /\ Len(sleeps') = Len(sleeps) + 1
              /\ sleeps'[Len(sleeps')] > 0
              /\ Len(sleeps) > 0 => sleeps'[Len(sleeps')] > sleeps[Len(sleeps)]
        /\ outcome' = "raised" =>
              /\ error_msg'.raised
              /\ ~HasMarker(error_msg') \/ attempt = max_retries - 1
              /\ wpc' = "idle" /\ trans' = "none" /\ staging' = NoTable
              /\ fact' = fact /\ attempt' = attempt /\ sleeps' = sleeps
        /\ (outcome' # "raised" /\ attempt' = attempt) => sleeps' = sleeps
      ]_vars

\* a call gave up on a deadlock at its third attempt, after two delays
C6_Witness ==
    /\ wpc = "idle" /\ outcome = "raised"
    /\ HasMarker(error_msg)
    /\ attempt = max_retries - 1
    /\ Len(sleeps) = max_retries - 1

\* C7: no staging relation exists when no call is running, nor at the start of
\* an attempt; one exists only inside the open transaction of an attempt,
\* between the staging write and the drop.
C7_StagingCleanup ==
    /\ wpc \in {"idle", "connect"} => ~staging.exists
    /\ staging.exists => (trans = "active" /\ wpc \in {"merge", "drop"})
    /\ trans = "none" => wpc \in {"idle", "connect"}

\* a call returned normally after an attempt that had failed and was retried
C7_Witness ==
    UpsertSucceeded /\ Len(sleeps) >= 1 /\ attempt >= 1 /\ fact # fact_at_call

(***************************************************************************)
(* Claims about the Range Planner (specification SpecPlanner)              *)
(***************************************************************************)
\* C8 as stated: the chunk loop produces exactly ceil(L / C) chunks,
\* C = CHUNK_SIZE_DAYS.
C8_ChunkCountCeilLC ==
    PlannerDone => Len(requested) = CeilDiv(history_days, CHUNK_SIZE_DAYS)

\* C8 amended: the chunk loop produces exactly ceil(L / (C + 1)) chunks: a full
\* chunk asks for the C + 1 days cursor_end - C .. cursor_end and the next one
\* ends the day before.
C8_ChunkCount ==
    PlannerDone => Len(requested) = CeilDiv(history_days, CHUNK_SIZE_DAYS + 1)

\* a finished loop of several chunks whose last chunk is a partial one
C8_Witness ==
    /\ PlannerDone
    /\ Len(requested) >= 2
    /\ history_days % (CHUNK_SIZE_DAYS + 1) # 0
    /\ history_days % CHUNK_SIZE_DAYS # 0

\* C9: when the loop is over, every day of [now - L, now] lies in exactly one
\* requested range and no requested day lies outside [now - L, now].
C9_ChunkCoverage ==
    PlannerDone =>
        /\ \A d \in (end_date - history_days)..end_date : TimesRequested(d) = 1
        /\ \A i \in 1..Len(requested) :
               /\ requested[i][1] >= end_date - history_days
               /\ requested[i][2] <= end_date

\* C10: a lookback of at most CHUNK_SIZE_DAYS days is fetched in exactly one chunk.
C10_SingleChunk ==
    (PlannerDone /\ history_days <= CHUNK_SIZE_DAYS) => Len(requested) = 1

\* C11: the ranges are requested newest first, the first one ending at now;
\* every range has start <= end and end - start <= CHUNK_SIZE_DAYS; no range
\* starts before now - L and the earliest one starts exactly there; each next
\* range ends the day before the previous one starts.
C11_ChunkShape ==
    PlannerDone =>
        /\ \A i \in 1..Len(requested) :
               /\ requested[i][1] <= requested[i][2]
               /\ requested[i][2] - requested[i][1] <= CHUNK_SIZE_DAYS
               /\ requested[i][1] >= end_date - history_days
        /\ \A i \in 1..(Len(requested) - 1) :
               requested[i + 1][2] = requested[i][1] - 1
        /\ Len(requested) > 0 =>
               /\ requested[1][2] = end_date
               /\ requested[Len(requested)][1] = end_date - history_days

(***************************************************************************)
(* Claims about the Flux Matrix Calculator, continued                      *)
(***************************************************************************)
\* the requested tickers the fact table holds at date d
SymbolsAt(d) == {t["Symbol"] : t \in StoredRowsAt(d)}
OneDateOnly ==
    (SymbolsAt(flux_args.past_date) \cup SymbolsAt(flux_args.now_date))
    \ (SymbolsAt(flux_args.past_date) \cap SymbolsAt(flux_args.now_date))
\* the fact table without the rows of the tickers stored at one date only
WithoutOneDateOnly == {t \in fact : t["Symbol"] \notin OneDateOnly}
FluxOfBothDates ==
    FluxMatrix(WithoutOneDateOnly, flux_args.past_date, flux_args.now_date,
               flux_args.target_assets, flux_args.hedge_assets)
FluxReturned == fpc = "done" /\ ~flux.is_none

\* C17: every node of a returned matrix other than HEDGE, and every ticker
\* that entered the computation, has a row at past_date and at now_date; and
\* the matrix is the one the table gives without the rows of the tickers stored
\* at one date only (all zero over HEDGE alone when nothing else is stored).
C17_LifecyclePruning ==
    FluxReturned =>
        /\ \A n \in FluxNodes \ {"HEDGE"} :
              n \in SymbolsAt(flux_args.past_date) \cap SymbolsAt(flux_args.now_date)
        /\ flux.alive = SymbolsAt(flux_args.past_date) \cap SymbolsAt(flux_args.now_date)
        /\ IF FluxOfBothDates.is_none
           THEN /\ flux.nodes = <<"HEDGE">>
                /\ \A e \in DOMAIN flux.cells : flux.cells[e] = Zero
           ELSE /\ flux.nodes = FluxOfBothDates.nodes
                /\ flux.cells = FluxOfBothDates.cells

\* a matrix with a flow was returned while a requested ticker was stored at
\* one of the two dates only
C17_Witness ==
    /\ FluxReturned
    /\ OneDateOnly # {}
    /\ \E e \in DOMAIN flux.cells : flux.cells[e] # Zero

(***************************************************************************)
(* Ingestion: crawler.py, fetch_all_data, _detect_splits and the whole of  *)
(* _fetch_and_store_prices, with upsert_market_data as the Writer          *)
(***************************************************************************)
\* ---- what the provider sends ----
PriceKeys == {"date", "open", "high", "low", "close", "volume"}
\* lines 188-191: the rename of the provider's field names
RenameMap ==
    [date |-> "Date", open |-> "Open", high |-> "High", low |-> "Low",
     close |-> "Close", volume |-> "Volume", marketCap |-> "Market_Cap"]
Rename(k) == IF k \in DOMAIN RenameMap THEN RenameMap[k] ELSE k

\* the price record of day d carrying the n-th quote
PriceRecord(d, n) == [k \in PriceKeys |-> IF k = "date" THEN d ELSE QuoteCol(n, RenameMap[k])]
\* a record that is no price record (an error entry): it has no 'date'
JunkRecord == [k \in {"message"} |-> Some(0)]
McapRecord(d, n) == [k \in {"date", "marketCap"} |->
                        IF k = "date" THEN d ELSE QuoteCol(n, "Market_Cap")]

\* the provider has records in the newest MaxDataChunks ranges of a ticker only
MaxDataChunks == 2
\* and market caps in the newest MaxMcapChunks ranges only
MaxMcapChunks == 1
\* the record lists a price response may carry for the chunk-th range
PriceRecordLists(chunk) ==
    IF chunk <= MaxDataChunks
    THEN {<< >>, <<PriceRecord(MaxDate, 1)>>, <<JunkRecord>>}
    ELSE {<< >>}
McapRecordLists(chunk) ==
    IF chunk <= MaxMcapChunks THEN {<< >>, <<McapRecord(MaxDate, 1)>>} ELSE {<< >>}

\* ---- the session of _create_retry_session, lines 28-33 ----
RetryTotal == 5
StatusForcelist == {429, 500, 502, 503, 504}
\* what one HTTP attempt of the price request can come to: no answer in time,
\* a status of the forcelist, or an answer session.get hands back, whose body
\* .json() parses (or fails to parse); line 136 never looks at the status of
\* the answer, so a 403 with a JSON error object is a body of kind "other"
HttpAttempts(chunk) ==
    {[kind |-> "timeout", status |-> 0, records |-> << >>]}
    \cup {[kind |-> "status", status |-> c, records |-> << >>] : c \in {429, 503}}
    \cup {[kind |-> k, status |-> 200, records |-> rs] :
            k \in {"list", "historical", "data"}, rs \in PriceRecordLists(chunk)}
    \cup {[kind |-> k, status |-> c, records |-> << >>] :
            k \in {"other", "unparsable"}, c \in {200, 403}}

\* urllib3 retries the same request on a forcelist status and on a timeout
Retryable(r) == r.kind = "timeout" \/ (r.kind = "status" /\ r.status \in StatusForcelist)
CauseOf(r) ==
    CASE r.kind = "timeout" -> "timeout"
      [] r.kind = "status" /\ r.status = 429 -> "429"
      [] r.kind = "status" -> "5xx"
      [] r.kind = "unparsable" -> "json"
      [] OTHER -> "none"
ExceptionOf(r) == [kind |-> "exception", records |-> << >>, cause |-> CauseOf(r)]
BodyOf(r) == [kind |-> r.kind, records |-> r.records, cause |-> "none"]

\* lines 137-140: what a parsed price response adds to all_prices
PriceRecordsAccepted(resp) ==
    IF resp.kind = "historical" THEN resp.records
    ELSE IF resp.kind = "list" THEN resp.records
    ELSE << >>
\* lines 151-152
McapRecordsAccepted(resp) == IF resp.kind = "list" THEN resp.records ELSE << >>

\* ---- lines 167-203: the assembly of df_final ----
ColumnsOf(recs) == UNION {DOMAIN recs[i] : i \in DOMAIN recs}
\* pd.DataFrame(list of dicts): a key a record lacks is NaN; to_datetime of
\* a missing date is NaT
Cell(r, k) == IF k \in DOMAIN r THEN r[k] ELSE IF k = "date" THEN NaT ELSE Null

\* drop_duplicates(subset=['date']): the first record of every date is kept
RECURSIVE DropDuplicates(_, _)
DropDuplicates(recs, seen) ==
    IF recs = << >> THEN << >>
    ELSE LET d == Cell(Head(recs), "date")
         IN  IF d \in seen THEN DropDuplicates(Tail(recs), seen)
             ELSE <<Head(recs)>> \o DropDuplicates(Tail(recs), seen \cup {d})

\* lines 196-201
ValidateAndFix(price, mcap) ==
    IF NotNa(ToFloat(price)) /\ NotNa(ToFloat(mcap)) /\ ToFloat(price) # Zero
    THEN Some(FDiv(ToFloat(mcap), ToFloat(price)))
    ELSE Null

\* lines 179-185: the left merge with the market caps on date
MarketCapOn(d, mcaps) ==
    IF mcaps # << >> /\ {"date", "marketCap"} \subseteq ColumnsOf(mcaps)
       /\ \E i \in DOMAIN mcaps : Cell(mcaps[i], "date") = d
    THEN LET first == DropDuplicates(mcaps, {})
         IN  Cell(first[CHOOSE i \in DOMAIN first : Cell(first[i], "date") = d], "marketCap")
    ELSE Null

NoDf == [raised |-> TRUE, df |-> NoneDf]
\* lines 167-203; df_price['date'] raises KeyError when no record has a date
Assemble(symbol, prices, mcaps) ==
    IF "date" \notin ColumnsOf(prices) THEN NoDf
    ELSE
    LET df_price == DropDuplicates(prices, {})
        cols == {Rename(k) : k \in ColumnsOf(prices)}
                    \cup {"Market_Cap", "Symbol", "Shares_Outstanding"}
        Row(r) ==
            LET mcap == MarketCapOn(Cell(r, "date"), mcaps)
            IN  [c \in cols |->
                    CASE c = "Symbol" -> symbol
                      [] c = "Market_Cap" -> mcap
                      [] c = "Shares_Outstanding" -> ValidateAndFix(Cell(r, "close"), mcap)
                      [] OTHER -> Cell(r, CHOOSE k \in ColumnsOf(prices) : Rename(k) = c)]
    IN  [raised |-> FALSE,
         df |-> [is_none |-> FALSE, columns |-> cols,
                 rows |-> [i \in DOMAIN df_price |-> Row(df_price[i])]]]

\* ---- _detect_splits, lines 68-87 ----
NoSymbol == ""
\* what the splits-calendar lookup can come back with: an exception of
\* session.get (timeout, retries spent), a status other than 200, a body
\* .json() cannot parse, a JSON object, or a list of items with their symbols
CalendarLists == {<<"AAA">>, <<"AAA", "HEDGE-ONLY">>, <<"ZZZ", NoSymbol>>}
CalendarResponses ==
    {[kind |-> k, symbols |-> << >>] : k \in {"exception", "status", "unparsable", "object"}}
    \cup {[kind |-> "list", symbols |-> l] : l \in CalendarLists}

\* lines 77-87: the set of split symbols of the universe
DetectSplitsNone(resp, universe) == {}
DetectSplitsAll(resp, universe) == Range(universe)
DetectSplits(resp, universe) ==
    IF resp.kind = "list"
    THEN {resp.symbols[i] : i \in {j \in DOMAIN resp.symbols : resp.symbols[j] # NoSymbol}}
         \cap Range(universe)
    ELSE {}

\* list(set): the sequences that hold each element of S once
ListsOf(S) == {l \in [1..Cardinality(S) -> S] : Range(l) = S}

\* ---- fetch_all_data ----
Universes == {<<"AAA", "HEDGE-ONLY">>, <<"AAA">>, <<"AAA", "AAA">>}
Markets == {"us", "tw"}

\* line 58: [t for t in target_universe if t not in split_tickers]
NormalTickersAll(universe, splits) == universe
NormalTickers(universe, splits) == SelectSeq(universe, LAMBDA t : t \notin Range(splits))

\* lines 46-58
RunDetect(resp) ==
    /\ rpc = "detect"
    /\ market = "us"
    /\ calendar' = resp
    /\ split_tickers' \in ListsOf(DetectSplits(resp, target_universe))
    /\ normal_tickers' = NormalTickers(target_universe, split_tickers')
    /\ rpc' = "split"
    /\ UNCHANGED <<fact, plannerVars, writerVars, fluxVars, featVars, concVars, market, run_days,
                   target_universe, crawlVars>>

\* line 46 false: nothing is done for another market
OtherMarket ==
    /\ rpc = "detect"
    /\ market # "us"
    /\ rpc' = "done"
    /\ UNCHANGED <<fact, plannerVars, writerVars, fluxVars, featVars, concVars, market, run_days,
                   target_universe, calendar, split_tickers, normal_tickers, crawlVars>>

\* the call _fetch_and_store_prices(ts, days) is entered
Enter(ts, days) ==
    /\ tickers' = ts
    /\ history_days' = days
    /\ idx' = 1
    /\ cpc' = "start"
    /\ UNCHANGED <<end_date, start_date_limit, cursor_end, requested,
                   all_prices, all_mcaps, retries, p_resp, transient, log>>

\* lines 60-62
SplitPass ==
    /\ rpc = "split"
    /\ IF split_tickers # << >>
       THEN rpc' = "split_pass" /\ Enter(split_tickers, FullHistoryDays)
       ELSE rpc' = "normal" /\ UNCHANGED <<plannerVars, crawlVars>>
    /\ UNCHANGED <<fact, writerVars, fluxVars, featVars, concVars, market, run_days, target_universe,
                   calendar, split_tickers, normal_tickers>>

\* lines 64-66
NormalPass ==
    /\ rpc = "normal"
    /\ IF normal_tickers # << >>
       THEN rpc' = "normal_pass" /\ Enter(normal_tickers, run_days)
       ELSE rpc' = "done" /\ UNCHANGED <<plannerVars, crawlVars>>
    /\ UNCHANGED <<fact, writerVars, fluxVars, featVars, concVars, market, run_days, target_universe,
                   calendar, split_tickers, normal_tickers>>

\* ---- _fetch_and_store_prices ----
Symbol == tickers[idx]

\* lines 104-105 and 212-213: the for loop takes the next symbol, whether the
\* body ran through, hit continue, or raised into the except of line 212
NextIndexAbort(i, failed) == IF failed THEN Len(tickers) + 1 ELSE i + 1
NextIndexAgain(i, failed) == IF failed THEN i ELSE i + 1
NextIndex(i, failed) == i + 1

\* lines 104-115: the next symbol of the list is taken up
BeginTicker ==
    /\ cpc = "start"
    /\ idx <= Len(tickers)
    /\ all_prices' = << >>
    /\ all_mcaps' = << >>
    /\ start_date_limit' = end_date - history_days
    /\ cursor_end' = end_date
    /\ requested' = << >>
    /\ retries' = 0
    /\ p_resp' = NoResponse
    /\ transient' = FALSE
    /\ log' = Append(log, <<"ticker", Symbol, history_days>>)
    /\ cpc' = "loop"
    /\ UNCHANGED <<fact, history_days, end_date, writerVars, fluxVars, featVars, concVars, runVars, tickers, idx>>

\* lines 118-134: the loop test holds and the range of the chunk is fixed
ChunkRequest ==
    /\ cpc = "loop"
    /\ LoopGuard(cursor_end, start_date_limit)
    /\ requested' = Append(requested, <<ChunkStart(cursor_end, start_date_limit), cursor_end>>)
    /\ retries' = 0
    /\ cpc' = "price"
    /\ UNCHANGED <<fact, history_days, end_date, start_date_limit, cursor_end, writerVars,
                   fluxVars, featVars, concVars, runVars, tickers, idx, all_prices, all_mcaps, p_resp,
                   transient, log>>

\* lines 135-142: one HTTP attempt of the price request. The session retries
\* the same request while it may; when it may not, session.get raises. An
\* exception, of session.get or of .json(), is logged and the loop goes on.
PriceAttempt(r) ==
    /\ cpc = "price"
    /\ IF Retryable(r) /\ retries < RetryTotal
       THEN /\ retries' = retries + 1
            /\ UNCHANGED <<cpc, all_prices, p_resp, transient>>
       ELSE /\ retries' = 0
            /\ cpc' = "mcap"
            /\ IF Retryable(r) \/ r.kind = "unparsable"
               THEN /\ p_resp' = ExceptionOf(r)
                    /\ transient' = (transient \/ CauseOf(r) \in {"timeout", "5xx"})
                    /\ UNCHANGED all_prices
               ELSE /\ p_resp' = BodyOf(r)
                    /\ all_prices' = all_prices \o PriceRecordsAccepted(BodyOf(r))
                    /\ UNCHANGED transient
    /\ UNCHANGED <<fact, history_days, end_date, start_date_limit, cursor_end, requested,
                   writerVars, fluxVars, featVars, concVars, runVars, tickers, idx, all_mcaps, log>>

\* lines 147-160: the market-cap request (its retries and its exception stay
\* inside, line 154), then the cursor moves to the next range
McapFetch(resp) ==
    /\ cpc = "mcap"
    /\ all_mcaps' = all_mcaps \o McapRecordsAccepted(resp)
    /\ cursor_end' = NextCursorEnd(ChunkStart(cursor_end, start_date_limit))
    /\ cpc' = "loop"
    /\ UNCHANGED <<fact, history_days, end_date, start_date_limit, requested, writerVars,
                   fluxVars, featVars, concVars, runVars, tickers, idx, all_prices, retries, p_resp,
                   transient, log>>

\* lines 163-206: nothing fetched (continue), or the assembly, which raises
\* into line 212 or ends in the call of the Writer
AssembleAndWrite ==
    /\ cpc = "assemble"
    /\ LET a == Assemble(Symbol, all_prices, all_mcaps)
       IN  IF all_prices = << >> \/ a.raised
           THEN /\ idx' = NextIndex(idx, all_prices # << >>)
                /\ cpc' = "start"
                /\ UNCHANGED <<fact, writerVars, log>>
           ELSE /\ CallStep(a.df)
                /\ cpc' = "upsert"
                /\ log' = Append(log, <<"upsert", Symbol, idx>>)
                /\ UNCHANGED idx
    /\ UNCHANGED <<history_days, end_date, start_date_limit, cursor_end, requested,
                   fluxVars, featVars, concVars, runVars, tickers, all_prices, all_mcaps, retries, p_resp,
                   transient>>

\* the Writer returned (lines 208-210) or raised (lines 212-213): its frame
\* is gone and the next symbol is due
UpsertOver ==
    /\ cpc = "upsert"
    /\ wpc = "idle"
    /\ idx' = NextIndex(idx, outcome = "raised")
    /\ cpc' = "start"
    /\ log' = Append(log, <<outcome, Symbol, idx>>)
    /\ IF outcome = "returned"
       THEN all_prices' = << >> /\ all_mcaps' = << >>
       ELSE UNCHANGED <<all_prices, all_mcaps>>
    /\ df' = NoneDf
    /\ attempt' = 0
    /\ error_msg' = NoError
    /\ sleeps' = << >>
    /\ outcome' = "none"
    /\ fact_at_call' = fact
    /\ same_again' = FALSE
    /\ UNCHANGED <<fact, history_days, end_date, start_date_limit, cursor_end, requested,
                   wpc, trans, pending, staging, fluxVars, featVars, concVars, runVars, tickers, retries,
                   p_resp, transient>>

\* line 104, the list is through: the call returns to its caller
PassEnd ==
    /\ cpc = "start"
    /\ idx > Len(tickers)
    /\ cpc' = "returned"
    /\ rpc' = CASE rpc = "split_pass" -> "normal"
              [] rpc = "normal_pass" -> "done"
              [] OTHER -> rpc
    /\ all_prices' = << >>
    /\ all_mcaps' = << >>
    /\ UNCHANGED <<fact, history_days, end_date, start_date_limit, cursor_end, requested,
                   writerVars, fluxVars, featVars, concVars, market, run_days, target_universe, calendar,
                   split_tickers, normal_tickers, tickers, idx, retries, p_resp,
                   transient, log>>

\* a row an earlier run stored for AAA, with the quote of that time
StaleRow ==
    InsertRow(EnsureColumns(Assemble("AAA", <<PriceRecord(MaxDate, MaxQuote)>>,
                                     <<McapRecord(MaxDate, MaxQuote)>>).df).rows[1])

\* ---- one call _fetch_and_store_prices(tickers, history_days) ----
TickerLists == {<<"AAA", "HEDGE-ONLY">>, <<"AAA">>, <<"AAA", "AAA">>}

InitCrawl ==
    /\ fact \in {{}, {StaleRow}}
    /\ WriterIdle
    /\ FluxIdle
    /\ history_days \in {IncrementalDays, FullHistoryDays}
    /\ end_date = 0
    /\ start_date_limit = 0
    /\ cursor_end = 0
    /\ requested = << >>
    /\ cpc = "start"
    /\ market = "us"
    /\ run_days = 0
    /\ target_universe = << >>
    /\ calendar = NoLookup
    /\ split_tickers = << >>
    /\ normal_tickers = << >>
    /\ rpc = "idle"
    /\ tickers \in TickerLists
    /\ idx = 1
    /\ all_prices = << >>
    /\ all_mcaps = << >>
    /\ retries = 0
    /\ p_resp = NoResponse
    /\ transient = FALSE
    /\ log = << >>
    /\ FeatureIdle
    /\ ConcurrentIdle

\* the steps of the Writer inside the call of line 206
WriterSteps(msgs) ==
    \/ Connect
    \/ StagingWrite
    \/ Merge
    \/ DropStaging
    \/ Commit
    \/ \E msg \in msgs : Except(msg)

NextCrawl ==
    \/ BeginTicker
    \/ ChunkRequest
    \/ \E r \in HttpAttempts(Len(requested)) : PriceAttempt(r)
    \/ \E rs \in McapRecordLists(Len(requested)) :
          \E k \in {"list", "other"} : McapFetch([kind |-> k, records |-> rs])
    \/ ChunkLoopExit
    \/ AssembleAndWrite
    \/ WriterSteps(ErrorMessages)
    \/ UpsertOver
    \/ PassEnd

SpecCrawl == InitCrawl /\ [][NextCrawl]_vars

\* ---- one run fetch_all_data(market, history_days) ----
\* what the provider and the database do during a run: the provider answers
\* with a bare list or a 503, the database fails without a deadlock marker
RunHttpAttempts(chunk) ==
    {r \in HttpAttempts(chunk) : r.kind = "list" \/ (r.kind = "status" /\ r.status = 503)}
RunErrors == {msg \in ErrorMessages : msg.markers = {}}

InitRun ==
    /\ fact \in {{}, {StaleRow}}
    /\ WriterIdle
    /\ PlannerIdle
    /\ FluxIdle
    /\ market \in Markets
    /\ run_days = IncrementalDays
    /\ target_universe \in Universes
    /\ calendar = NoLookup
    /\ split_tickers = << >>
    /\ normal_tickers = << >>
    /\ rpc = "detect"
    /\ tickers = << >>
    /\ idx = 0
    /\ all_prices = << >>
    /\ all_mcaps = << >>
    /\ retries = 0
    /\ p_resp = NoResponse
    /\ transient = FALSE
    /\ log = << >>
    /\ FeatureIdle
    /\ ConcurrentIdle

NextRun ==
    \/ \E resp \in CalendarResponses : RunDetect(resp)
    \/ OtherMarket
    \/ SplitPass
    \/ NormalPass
    \/ BeginTicker
    \/ ChunkRequest
    \/ \E r \in RunHttpAttempts(Len(requested)) : PriceAttempt(r)
    \/ \E rs \in McapRecordLists(Len(requested)) : McapFetch([kind |-> "list", records |-> rs])
    \/ ChunkLoopExit
    \/ AssembleAndWrite
    \/ WriterSteps(RunErrors)
    \/ UpsertOver
    \/ PassEnd

SpecRun == InitRun /\ [][NextRun]_vars

(***************************************************************************)
(* Claims about one _fetch_and_store_prices call (specification SpecCrawl) *)
(***************************************************************************)
\* the symbols taken up so far, in order
TickerEvents == SelectSeq(log, LAMBDA e : e[1] = "ticker")
SymbolsTakenUp == [i \in DOMAIN TickerEvents |-> TickerEvents[i][2]]
UpsertEvents == SelectSeq(log, LAMBDA e : e[1] = "upsert")
LastRange == requested[Len(requested)]

\* C12: a range whose price request met the rate limit is not left behind:
\* while the last price request of the ticker stands as failed on 429, the
\* cursor is still on that range.
C12_RateLimitInPlace ==
    (cpc \in {"loop", "price", "mcap"} /\ requested # << >>
       /\ p_resp.kind = "exception" /\ p_resp.cause = "429")
    => cursor_end = LastRange[2]

\* C13: the call never stops before it returns, whatever fails for a ticker,
\* and when it returns every symbol of the list was taken up, once and in order.
C13_FailureIsolation ==
    /\ cpc # "returned" => ENABLED NextCrawl
    /\ cpc = "returned" => SymbolsTakenUp = tickers
    /\ Len(SymbolsTakenUp) <= Len(tickers)

\* the call returned after the Writer raised for the first symbol, a later
\* symbol was written, and one symbol failed in the assembly or had no prices
C13_Witness ==
    /\ cpc = "returned"
    /\ Len(tickers) = 2
    /\ <<"raised", tickers[1], 1>> \in Range(log)
    /\ <<"returned", tickers[2], 2>> \in Range(log)

\* C16: a parsed price response that is a bare list, an object with the list
\* under "historical" or an object with the list under "data" adds its records
\* to all_prices; any other response adds nothing; and the loop goes on to the
\* market-cap request either way.
C16_ShapeNormalization ==
    [][(cpc = "price" /\ cpc' # "price") =>
          /\ cpc' = "mcap"
          /\ IF p_resp'.kind \in {"list", "historical", "data"}
             THEN all_prices' = all_prices \o p_resp'.records
             ELSE all_prices' = all_prices
      ]_vars

\* C19: no batch of a ticker is handed to the Writer when one of its price
\* chunks was given up after a timeout or 5xx.
C19_TransientSkip == cpc = "upsert" => ~transient

\* C20: the Writer runs only inside the call of line 206, which is made at
\* most once per symbol of the list and only when the chunk loop has walked
\* past the lookback limit; while a symbol is fetched or assembled, no Writer
\* call is running, no transaction is open and no staging relation exists.
C20_NoPartialWrites ==
    /\ wpc # "idle" => cpc = "upsert"
    /\ cpc = "upsert" => (cursor_end <= start_date_limit /\ requested # << >>)
    /\ cpc # "upsert" => (wpc = "idle" /\ trans = "none" /\ ~staging.exists /\ pending = fact)
    /\ \A i, j \in DOMAIN UpsertEvents :
          UpsertEvents[i][3] = UpsertEvents[j][3] => i = j
    /\ Len(UpsertEvents) <= Len(SymbolsTakenUp)

\* the second symbol is being fetched after the write of the first, fetched in
\* several chunks, was committed
C20_Witness ==
    /\ cpc = "price" /\ idx = 2
    /\ Len(requested) >= 2
    /\ <<"returned", tickers[1], 1>> \in Range(log)
    /\ fact # {}

(***************************************************************************)
(* Claims about one fetch_all_data run (specification SpecRun)             *)
(***************************************************************************)
\* the symbols the action calendar reported
Reported ==
    IF calendar.kind = "list" THEN Range(calendar.symbols) \ {NoSymbol} ELSE {}
LookedUp == rpc \notin {"idle", "detect"} /\ market = "us"
\* a Writer call of the run has just committed
WriteCommitted == cpc = "upsert" /\ wpc = "idle" /\ outcome = "returned"

\* C14: in a run for the us market, every symbol taken up is fetched with the
\* 10,950-day lookback when the calendar reported it and with the run's
\* lookback otherwise, every symbol of the universe is taken up by the end, and
\* a committed write leaves one row per key of the batch, with the batch's
\* values, and every other row as it was.
C14_SplitRouting ==
    LookedUp =>
        /\ \A i \in DOMAIN TickerEvents :
              TickerEvents[i][3] = IF TickerEvents[i][2] \in Reported
                                   THEN FullHistoryDays ELSE run_days
        /\ rpc = "done" => Range(SymbolsTakenUp) = Range(target_universe)
        /\ PrimaryKeyHolds(fact)
        /\ WriteCommitted =>
              /\ \A k \in BatchKeys : RowsAt(fact, k) # {}
              /\ \A t \in fact :
                    IF KeyOf(t) \in BatchKeys
                    THEN \E i \in DOMAIN df.rows :
                            /\ KeyOf(df.rows[i]) = KeyOf(t)
                            /\ \A c \in ValueCols : t[c] = df.rows[i][c]
                    ELSE t \in fact_at_call

\* the stored row of a reported symbol was overwritten on the full-history path
C14_Witness ==
    /\ LookedUp /\ rpc = "split_pass" /\ WriteCommitted
    /\ history_days = FullHistoryDays
    /\ Symbol \in Reported
    /\ fact_at_call = {StaleRow}
    /\ Cardinality(fact) = 1
    /\ fact # fact_at_call
    /\ normal_tickers # << >>

LookupFailed == calendar.kind \in {"exception", "status", "unparsable", "object"}

\* C15: when the calendar lookup fails, no split is detected, the run goes on
\* to its end, and every symbol of the universe is taken up with the run's
\* lookback.
C15_DetectorDegradation ==
    (LookedUp /\ LookupFailed) =>
        /\ split_tickers = << >>
        /\ normal_tickers = target_universe
        /\ \A i \in DOMAIN TickerEvents : TickerEvents[i][3] = run_days
        /\ rpc # "done" => ENABLED NextRun
        /\ rpc = "done" => SymbolsTakenUp = target_universe

\* a run ended after a lookup that raised, with both symbols taken up
C15_Witness ==
    /\ rpc = "done" /\ market = "us"
    /\ calendar.kind = "exception"
    /\ Len(SymbolsTakenUp) = 2
    /\ \E i \in DOMAIN log : log[i][1] = "returned"


(***************************************************************************)
(* DatabaseManipulation.prepare_tsf_features (Feature Engine): three       *)
(* UPDATE statements in one transaction over Fact_DailyPrice.              *)
(* RS_Ratio is an exact rational. LOG is kept symbolic: ln(q) is the       *)
(* record [ln |-> q], so two logarithms are equal exactly when their       *)
(* arguments are. A z-score that is not NULL is kept as the expression it  *)
(* was computed from: the row's value and the observations of its window.  *)
(***************************************************************************)
MaxFeatDate == 3
MaxClose == 2
MaxFeatBatchLen == 2
MaxFeatureRuns == 2
MaxFeatureUpserts == 1
\* a series long enough for the window to leave rows behind
LongDates == 22

\* benchmark='SPY'
Benchmark == "SPY"
FeatSymbols == {Benchmark, "AAA"}
FeatDates == 1..MaxFeatDate
FeatKeys == FeatDates \X FeatSymbols
\* GETDATE(), as a day number
Today == MaxFeatDate
\* ROWS BETWEEN 19 PRECEDING AND CURRENT ROW
WindowRows == 20

\* a row as an upsert of one close leaves it: derived columns NULL
CloseRow(d, s, close) ==
    [c \in AllCols |->
        CASE c = "Date" -> d [] c = "Symbol" -> s [] c = "Close" -> Some(close)
          [] OTHER -> Null]

\* date_filter: empty when days_to_process is None or 0
DateFilter(days, t) == days = 0 \/ t["Date"] >= Today - days

\* a FLOAT column value as a rational, NULL staying NULL
CloseOf(t) == IF t["Close"] = Null THEN Null ELSE Some(<<t["Close"][1], 1>>)
\* NULLIF(v, 0)
NullIfZero(v) == IF v = Some(Zero) THEN Null ELSE v
\* a / b in SQL: NULL when an operand is NULL (b is never 0 here: NULLIF)
SqlDiv(a, b) == IF a = Null \/ b = Null THEN Null ELSE Some(FDiv(a[1], b[1]))

\* sql_rs: every row that joins the benchmark's row of its date
BenchmarkRows(T, t) == {b \in T : b["Symbol"] = Benchmark /\ b["Date"] = t["Date"]}
SqlRs(T, days) ==
    {IF DateFilter(days, t) /\ BenchmarkRows(T, t) # {}
        THEN LET b == CHOOSE b \in BenchmarkRows(T, t) : TRUE
             IN  [t EXCEPT !["RS_Ratio"] = SqlDiv(CloseOf(t), NullIfZero(CloseOf(b)))]
        ELSE t : t \in T}

\* LAG(RS_Ratio) OVER (PARTITION BY Symbol ORDER BY Date)
Earlier(T, t) == {u \in T : u["Symbol"] = t["Symbol"] /\ u["Date"] < t["Date"]}
PrevRs(T, t) ==
    IF Earlier(T, t) = {} THEN Null
    ELSE (CHOOSE u \in Earlier(T, t) : \A v \in Earlier(T, t) : v["Date"] <= u["Date"])["RS_Ratio"]

\* the rows sql_log_ret updates, and the argument of LOG for each
LogRetTarget(T, days, t) ==
    t["RS_Ratio"] # Null /\ PrevRs(T, t) # Null /\ DateFilter(days, t)
LogArg(T, t) == SqlDiv(t["RS_Ratio"], NullIfZero(PrevRs(T, t)))
Ln(q) == [ln |-> q]
\* LOG of a value that is not positive: "An invalid floating point
\* operation occurred", the statement fails
LogRetFails(T, days) ==
    \E t \in T : LogRetTarget(T, days, t) /\ LogArg(T, t) # Null /\ LogArg(T, t)[1][1] <= 0
SqlLogRet(T, days) ==
    {IF LogRetTarget(T, days, t)
        THEN [t EXCEPT !["Log_Return_RS"] =
                 IF LogArg(T, t) = Null THEN Null ELSE Some(Ln(LogArg(T, t)[1]))]
        ELSE t : t \in T}

\* the frame of the window functions, and its Log_Return_RS that are not NULL
WindowOf(T, t) ==
    {u \in T : /\ u["Symbol"] = t["Symbol"]
               /\ u["Date"] <= t["Date"]
               /\ Cardinality({v \in T : /\ v["Symbol"] = t["Symbol"]
                                         /\ u["Date"] < v["Date"]
                                         /\ v["Date"] <= t["Date"]}) < WindowRows}
Observations(T, t) == {u \in WindowOf(T, t) : u["Log_Return_RS"] # Null}
\* STDEV is NULL below two observations and 0 when they are all equal
StdIsNull(T, t) == Cardinality(Observations(T, t)) < 2
StdIsZero(T, t) ==
    /\ ~StdIsNull(T, t)
    /\ \A u, v \in Observations(T, t) : u["Log_Return_RS"] = v["Log_Return_RS"]
\* (Log_Return_RS - Avg_20D) / NULLIF(Std_20D, 0)
ZScoreOf(T, t) ==
    IF StdIsNull(T, t) \/ StdIsZero(T, t) THEN Null
    ELSE Some([x |-> t["Log_Return_RS"][1],
               window |-> [d \in {u["Date"] : u \in Observations(T, t)} |->
                             (CHOOSE u \in Observations(T, t) : u["Date"] = d)["Log_Return_RS"][1]]])
ZScoreTarget(days, t) == t["Log_Return_RS"] # Null /\ DateFilter(days, t)
SqlZscore(T, days) ==
    {IF ZScoreTarget(days, t) THEN [t EXCEPT !["ZScore_20D"] = ZScoreOf(T, t)] ELSE t : t \in T}

\* one run: the three statements and the commit, or the exception that
\* leaves the transaction to be rolled back
PrepareTsfFeatures(days) ==
    /\ nruns < MaxFeatureRuns
    /\ nruns' = nruns + 1
    /\ days_to_process' = days
    /\ LET T1 == SqlRs(fact, days)
       IN  IF LogRetFails(T1, days)
              THEN fact' = fact /\ fepc' = "raised"
              ELSE /\ fact' = SqlZscore(SqlLogRet(T1, days), days)
                   /\ fepc' = "committed"
    /\ UNCHANGED <<nupserts, plannerVars, writerVars, fluxVars, runVars, crawlVars, concVars>>

\* the batches upserted between two runs: closes only
FeatBatches ==
    {[is_none |-> FALSE, columns |-> RequiredCols, rows |-> rs] :
        rs \in SeqsUpTo({[c \in RequiredCols |-> CloseRow(k[1], k[2], cl)[c]] :
                            k \in FeatKeys, cl \in 0..MaxClose},
                        MaxFeatBatchLen)}

\* upsert_market_data from call to return, on a batch whose MERGE succeeds
UpsertBetweenRuns(b) ==
    /\ nupserts < MaxFeatureUpserts
    /\ ~IsEmptyDf(b)
    /\ ~MergeError(fact, ToSql(EnsureColumns(b)))
    /\ fact' = MergeInto(fact, ToSql(EnsureColumns(b)))
    /\ nupserts' = nupserts + 1
    /\ fepc' = "upsert"
    /\ UNCHANGED <<days_to_process, nruns, plannerVars, writerVars, fluxVars, runVars, crawlVars, concVars>>

\* tables the upserts of earlier days have left: the benchmark on every
\* date, the other symbol on any of them
ShortTables ==
    {{CloseRow(d, Benchmark, IF d = 1 THEN b1 ELSE 1) : d \in FeatDates}
        \cup {CloseRow(d, "AAA", a[d]) : d \in {e \in FeatDates : a[e] <= MaxClose}} :
     b1 \in 0..1, a \in [FeatDates -> 0..(MaxClose + 1)]}

\* 2 to the n
RECURSIVE Pow2(_)
Pow2(n) == IF n = 0 THEN 1 ELSE 2 * Pow2(n - 1)
\* a long series: the relative strength quadruples once, on the second
\* date, and doubles on every date after it
LongTable ==
    {CloseRow(d, Benchmark, 1) : d \in 1..LongDates}
        \cup {CloseRow(d, "AAA", IF d = 1 THEN 1 ELSE Pow2(d)) : d \in 1..LongDates}

InitFeature ==
    /\ fact \in ShortTables \cup {LongTable}
    /\ WriterIdle
    /\ PlannerIdle
    /\ FluxIdle
    /\ CrawlIdle
    /\ FeatureIdle
    /\ ConcurrentIdle

NextFeature ==
    \/ \E days \in 0..1 : PrepareTsfFeatures(days)
    \/ \E b \in FeatBatches : UpsertBetweenRuns(b)

SpecFeature == InitFeature /\ [][NextFeature]_vars

\* C18: after a Feature Engine run has committed, every row the run's date
\* filter lets through whose window (the last 20 rows of its symbol, itself
\* included) holds fewer than 2 Log_Return_RS values, or only equal ones,
\* has a NULL ZScore_20D; and no run fails on a division by zero (the only
\* failure a run has is LOG of a value that is not positive).
C18_ZScoreDegenerate ==
    fepc = "committed" =>
        \A t \in fact :
            (DateFilter(days_to_process, t) /\ (StdIsNull(fact, t) \/ StdIsZero(fact, t)))
                => t["ZScore_20D"] = Null

\* C22: after a Feature Engine run has committed, every row the run's date
\* filter lets through has a NULL Log_Return_RS when its RS_Ratio is NULL,
\* when its symbol's previous row has a NULL RS_Ratio (or there is none) or
\* when that previous RS_Ratio is 0, and ln(RS_Ratio / previous RS_Ratio)
\* otherwise.
C22_LogReturnNullness ==
    fepc = "committed" =>
        \A t \in fact :
            DateFilter(days_to_process, t) =>
                IF \/ t["RS_Ratio"] = Null
                   \/ PrevRs(fact, t) = Null
                   \/ PrevRs(fact, t) = Some(Zero)
                   THEN t["Log_Return_RS"] = Null
                   ELSE t["Log_Return_RS"] = Some(Ln(FDiv(t["RS_Ratio"][1], PrevRs(fact, t)[1])))

(***************************************************************************)
(* Claims about the Upsert Writer, continued (specification Spec)          *)
(***************************************************************************)
\* what the whole batch of the call makes of the table the call found
WholeBatchApplied == MergeInto(fact_at_call, ToSql(df))

\* C23: while a call is running, whatever attempts of it have failed and
\* whatever the running attempt has staged or merged, the fact table is the
\* one the call found; it still is when the call has raised; and the table
\* differs from the one the call found only once the call has returned, and
\* then by the whole batch.
C23_FailedUpsertUntouched ==
    /\ wpc # "idle" => fact = fact_at_call
    /\ (wpc = "idle" /\ outcome = "raised") => fact = fact_at_call
    /\ fact # fact_at_call => (outcome = "returned" /\ fact = WholeBatchApplied)

\* a call whose batch would have changed the table raised after its third
\* attempt, the attempts before having failed on a deadlock
C23_Witness ==
    /\ wpc = "idle"
    /\ outcome = "raised"
    /\ attempt = max_retries - 1
    /\ Len(sleeps) = max_retries - 1
    /\ WholeBatchApplied # fact_at_call
    /\ fact_at_call # {}

(***************************************************************************)
(* Claims about the Flux Matrix Calculator, once more (SpecFlux)           *)
(***************************************************************************)
\* how many nodes the net flow of ticker s enters: its own node when it is
\* one, and HEDGE once for each time the sum of line 275 takes it
TimesEntered(s) ==
    (IF s \in FluxNodes \ {"HEDGE"} THEN 1 ELSE 0)
    + Cardinality({i \in DOMAIN flux.active_hedges : flux.active_hedges[i] = s})

\* C24: in a returned matrix the net flow of every surviving ticker enters
\* exactly one node, its own or HEDGE; so the net flows of the nodes add up
\* to the net flows of the surviving tickers.
C24_SingleCounting ==
    FluxReturned =>
        /\ \A s \in flux.alive : TimesEntered(s) = 1
        /\ FSumDict(flux.nodes_f_net) = FSumDict(flux.f_net_dict)

(***************************************************************************)
(* Claims about one fetch_all_data run, continued (specification SpecRun)  *)
(***************************************************************************)
\* the lookback tells the path: the split path fetches 10,950 days, the
\* normal path the days of the run (30 in these runs)
OnSplitPath(e) == e[3] = FullHistoryDays
OnNormalPath(e) == e[3] = run_days

\* C25: in a run for the us market, once the lists are built, no ticker is in
\* both, and the two together hold exactly the tickers of the universe; a
\* ticker is taken up on the split path only when it is in the split list and
\* on the normal path only when it is in the normal list, so never on both;
\* no ticker is taken up on the split path after one was on the normal path,
\* and none on the normal path before the split pass has returned; and at the
\* end of the run every ticker of the universe was taken up.
C25_RoutingPartition ==
    LookedUp =>
        /\ Range(split_tickers) \cap Range(normal_tickers) = {}
        /\ Range(split_tickers) \cup Range(normal_tickers) = Range(target_universe)
        /\ \A i \in DOMAIN TickerEvents :
              /\ OnSplitPath(TickerEvents[i]) => TickerEvents[i][2] \in Range(split_tickers)
              /\ OnNormalPath(TickerEvents[i]) => TickerEvents[i][2] \in Range(normal_tickers)
              /\ OnSplitPath(TickerEvents[i]) # OnNormalPath(TickerEvents[i])
        /\ \A i, j \in DOMAIN TickerEvents :
              (i < j /\ OnNormalPath(TickerEvents[i])) => OnNormalPath(TickerEvents[j])
        /\ rpc \in {"split", "split_pass"} =>
              \A i \in DOMAIN TickerEvents : OnSplitPath(TickerEvents[i])
        /\ rpc = "normal_pass" => tickers = normal_tickers
        /\ rpc = "split_pass" => tickers = split_tickers
        /\ rpc = "done" =>
              \A t \in Range(target_universe) :
                 \E i \in DOMAIN TickerEvents : TickerEvents[i][2] = t

\* a run ended with one ticker taken up on the split path and then another
\* on the normal path
C25_Witness ==
    /\ rpc = "done" /\ market = "us"
    /\ split_tickers # << >> /\ normal_tickers # << >>
    /\ Len(TickerEvents) = 2
    /\ OnSplitPath(TickerEvents[1])
    /\ OnNormalPath(TickerEvents[2])
    /\ TickerEvents[1][2] # TickerEvents[2][2]

(***************************************************************************)
(* Writers at once: any calls by any of them, in any interleaving          *)
(***************************************************************************)
InitWriters ==
    /\ fact = {}
    /\ WriterIdle
    /\ PlannerIdle
    /\ FluxIdle
    /\ CrawlIdle
    /\ FeatureIdle
    /\ ConcurrentIdle

NextWriters ==
    \E w \in Writers :
        \/ \E b \in WriterBatches(w), sfx \in Suffixes : CallOf(w, b, sfx)
        \/ ConnectOf(w)
        \/ StagingWriteOf(w)
        \/ MergeMatch(w)
        \/ MergeWrite(w)
        \/ DropStagingOf(w)
        \/ CommitOf(w)
        \/ \E deadlock \in BOOLEAN : ExceptOf(w, deadlock)

SpecWriters == InitWriters /\ [][NextWriters]_vars

\* C21: whatever the writers do and however their calls interleave, the fact
\* table holds at most one row per (Date, Symbol); the source a writer's
\* MERGE has read is the batch that writer staged; and the staging relation
\* a writer is about to merge from holds that writer's batch.
C21_KeyUniqueness ==
    /\ PrimaryKeyHolds(fact)
    /\ \A w \in Writers :
          /\ cw[w].pc \in {"merge_write", "drop", "commit"} => cw[w].read = ToSql(cw[w].df)
          /\ cw[w].pc = "merge" =>
                tempdb[StagingKey(w, cw[w].suffix)] = StagingTable(ToSql(cw[w].df))

\* two writers that drew the same suffix are in their transactions at once:
\* one has matched its source and is about to insert a key that the other
\* writer's earlier call has committed in the meantime, while that other
\* writer has the batch of its next call staged
C21_Witness ==
    \E w, v \in Writers :
        /\ w # v
        /\ cw[w].suffix = cw[v].suffix
        /\ cw[w].pc = "merge_write"
        /\ PrimaryKeyViolation(fact, cw[w].to_insert)
        /\ cw[v].pc = "merge"
        /\ SourceKeys(cw[w].read) \cap SourceKeys(ToSql(cw[v].df)) # {}

====
